---- MODULE Spec2Model ----
(***************************************************************************)
(* Acunetix report sender: the scan-to-report reconciliation workflow.     *)
(*                                                                         *)
(* One run of main() loads the Processed Set from the store file, lists    *)
(* the scans of the remote service, drives report generation, polling and  *)
(* download for every eligible scan, sends one e-mail for the batch and,   *)
(* when the e-mail was sent, marks every scan of the batch as processed.   *)
(*                                                                         *)
(* Spec      the runs of main(), one after the other, against a remote     *)
(*           service whose answers are held in the variable remote.        *)
(* SpecCheck _wait_for_scan_completion, one status check per step.         *)
(* SpecWait  _wait_for_report on its own, one poll per step, for every     *)
(*           sequence of poll answers.                                     *)
(* SpecScan  process_scans on a listing of one scan, for every scan.       *)
(* SpecCrash the runs of main(), with interrupts at any point.             *)
(* SpecStore one run of main() from every state of the store file.         *)
(* SpecRun   one run of main() in which every call returns.                *)
(* SpecApi   generate_report, delete_reports and the retry loop of         *)
(*           _make_request.                                                *)
(* SpecUrl   the URL download_report builds from base URL and locator.     *)
(* SpecName  the name of the report file.                                  *)
(* SpecPaths the names of the report files of the results of one run.      *)
(***************************************************************************)
EXTENDS Integers, Sequences, FiniteSets, TLC

VARIABLES
    pc,               \* main(): idle (no process), loaded, scanning, batch,
                      \* committing, exited (main has returned or called sys.exit)
    exitCode,         \* exit status of the last run: "none" while running, "0", "1",
                      \* or "130" (the process ended by SIGINT after an uncaught
                      \* KeyboardInterrupt)
    remote,           \* what the remote service answers to the run: listing and scans
    file,             \* the store file (config.paths.processed_file)
    processed_scans,  \* ScanProcessor.processed_scans
    scans,            \* process_scans: the listing being iterated
    idx,              \* process_scans: index of the next scan of the listing
    results,          \* process_scans: results / main: scan_results
    handled,          \* per listed scan handled so far: what _generate_scan_report did
    email_sent,       \* main: "none" before send_email, then "sent" or "failed"
    cidx,             \* main: index of the next result to mark as processed
    loaded,           \* history: processed_scans right after _load_processed_scans
    fileAtStart,      \* history: the store file when the run started
    notified,         \* history: scan_ids of every batch send_email returned True for
    notifyInput,      \* history: the batches handed to send_email in this run
    saveFailed,       \* history: a _save_processed_scans of this run raised
    last,             \* history: how the previous run against this remote state ended
    lastSave,         \* history: how the last _save_processed_scans of this run went
    durable,          \* history: the set the last completed write of the file wrote
    polls,            \* _wait_for_report: get_report_status calls made
    sleeps,           \* _wait_for_report: time.sleep calls made
    pollLog,          \* _wait_for_report: the answers received, in order
    waitResult,       \* _wait_for_report: "waiting", "report", "none" (returned None)
                      \* or the exception that left it
    checks,           \* _wait_for_scan_completion: fetch_scan calls made
    checkSleeps,      \* _wait_for_scan_completion: time.sleep calls made
    checkLog,         \* _wait_for_scan_completion: the answers received, in order
    completion,       \* _wait_for_scan_completion: "waiting", "True", "False" or
                      \* the exception that left it
    wait_scan_id,     \* _wait_for_scan_completion: the argument scan_id
    api_call,         \* the function of AcunetixAPI that was called: "none",
                      \* "generate_report" or "delete_reports"
    target_id,        \* generate_report: the argument
    report_ids,       \* delete_reports: the argument
    deleted,          \* delete_reports: "none" (not returned), "True", "False" or
                      \* the exception that left it
    max_retries,      \* _make_request: config.max_retries
    attempt,          \* _make_request: the loop variable, requests made so far
    api_result,       \* generate_report and the _make_request of either call:
                      \* "none" (not called), "running", "returned", or the
                      \* exception that left it
    requestLog,       \* history: how each session.request of the call went
    last_exception,   \* _make_request: the RequestException caught last
    backoffs,         \* history: the time.sleep calls of _make_request, each in
                      \* units of config.backoff_factor
    config_url,       \* download_report: self.config.url
    url_suffix,       \* download_report: the argument
    full_url,         \* download_report: the URL requested
    target_name,      \* _generate_scan_report: the description of the target
    timestamp,        \* _generate_scan_report: datetime.now() as %Y%m%d_%H%M%S
    report_filename,  \* _generate_scan_report: the name of the report file
    descriptions,     \* process_scans: the target descriptions of the scans whose
                      \* reports the run downloads, in the order of the listing
    now,              \* datetime.now(), in seconds since the run started
    report_paths      \* history: report_path of every ScanResult of the run so far

mainVars == <<pc, exitCode, remote, file, processed_scans, scans, idx, results,
              handled, email_sent, cidx, loaded, fileAtStart, notified,
              notifyInput, saveFailed, last, lastSave, durable>>
scanWaitVars == <<checks, checkSleeps, checkLog, completion, wait_scan_id>>
waitVars == <<polls, sleeps, pollLog, waitResult, scanWaitVars>>
apiVars == <<api_call, target_id, report_ids, deleted, max_retries, attempt,
            api_result, requestLog, last_exception, backoffs>>
urlVars == <<config_url, url_suffix, full_url>>
pathVars == <<descriptions, now, report_paths>>
nameVars == <<target_name, timestamp, report_filename, pathVars>>
vars == <<mainVars, waitVars, apiVars, urlVars, nameVars>>

-----------------------------------------------------------------------------
(* Bounds and program constants *)

\* longest listing the remote service returns
MaxScans == 2

\* _wait_for_report(report_id, max_attempts=10)
MaxAttempts == 10

\* _wait_for_scan_completion(scan_id, max_checks=10)
MaxChecks == 10

NoneVal == "None"

Ids == {"s1", "s2"}

TargetOf(s) == IF s = "s1" THEN "t1" ELSE "t2"

-----------------------------------------------------------------------------
(* models.ScanStatus and the answers of a report status poll *)

ScanStatusValues == {"scheduled", "running", "completed", "failed", "stopped"}

\* what one get_report_status call can do: return an object with a status,
\* return an empty payload, return a payload that is not empty and no object
\* (a JSON array, string or number), or raise AcunetixAPIError. "non_object"
\* also stands for the call itself raising the AttributeError of
\* _make_request (see ErrorDetails): either way AttributeError leaves the
\* wait at this poll. The report_id is not empty (line 135)
NonTerminalPolls == {"running", "empty"}
TerminalPolls == {"completed", "failed", "cancelled"}
PollOutcomes == NonTerminalPolls \cup TerminalPolls \cup {"non_object", "error"}

-----------------------------------------------------------------------------
(* _wait_for_report *)

WaitInit == [polls |-> 0, sleeps |-> 0, result |-> "waiting"]

\* a loop body that goes on polling after an AcunetixAPIError
PollBodyErrorContinues(outcome) ==
    IF outcome = "empty" THEN "continue"
    ELSE IF outcome = "non_object" THEN "raise"
    ELSE IF outcome = "completed" THEN "return_report"
    ELSE IF outcome \in {"failed", "cancelled"} THEN "return_none"
    ELSE "sleep_continue"

\* the body of the polling loop for one answer: what the loop does next
PollBody(outcome) ==
    IF outcome = "error" THEN "return_none"          \* except AcunetixAPIError
    ELSE IF outcome = "empty" THEN "continue"        \* if not report: continue
    ELSE IF outcome = "non_object" THEN "raise"      \* report.get: AttributeError
    ELSE IF outcome = "completed" THEN "return_report"
    ELSE IF outcome \in {"failed", "cancelled"} THEN "return_none"
    ELSE "sleep_continue"

\* a loop that runs one iteration too many
WaitStepOneMore(w, outcome) ==
    LET body == PollBody(outcome)
        n == w.polls + 1
        s == IF body = "sleep_continue" THEN w.sleeps + 1 ELSE w.sleeps
    IN  IF body = "return_report" THEN [polls |-> n, sleeps |-> s, result |-> "report"]
        ELSE IF body = "return_none" THEN [polls |-> n, sleeps |-> s, result |-> "none"]
        ELSE IF body = "raise" THEN [polls |-> n, sleeps |-> s, result |-> "AttributeError"]
        ELSE IF n > MaxAttempts THEN [polls |-> n, sleeps |-> s, result |-> "none"]
        ELSE [polls |-> n, sleeps |-> s, result |-> "waiting"]

\* one iteration of the loop, and the return after the last one
WaitStep(w, outcome) ==
    LET body == PollBody(outcome)
        n == w.polls + 1
        s == IF body = "sleep_continue" THEN w.sleeps + 1 ELSE w.sleeps
    IN  IF body = "return_report" THEN [polls |-> n, sleeps |-> s, result |-> "report"]
        ELSE IF body = "return_none" THEN [polls |-> n, sleeps |-> s, result |-> "none"]
        ELSE IF body = "raise" THEN [polls |-> n, sleeps |-> s, result |-> "AttributeError"]
        ELSE IF n >= MaxAttempts THEN [polls |-> n, sleeps |-> s, result |-> "none"]
        ELSE [polls |-> n, sleeps |-> s, result |-> "waiting"]

\* the answer of the k-th poll of a report whose answers are plan; a report
\* keeps its last answer
PlanAt(plan, k) == IF k <= Len(plan) THEN plan[k] ELSE plan[Len(plan)]

\* the loop: one iteration after the other until one returns (the state after
\* an iteration is bound as x, a value computed once)
RECURSIVE WaitLoop(_, _)
WaitLoop(w, plan) ==
    IF w.result # "waiting" THEN w
    ELSE CHOOSE r \in {WaitLoop(x, plan) :
                        x \in {WaitStep(w, PlanAt(plan, w.polls + 1))}} : TRUE

WaitForReport(plan) == WaitLoop(WaitInit, plan)

-----------------------------------------------------------------------------
(* _wait_for_scan_completion *)

\* what one fetch_scan call of the wait can do: return a scan whose session
\* has one of these statuses, return a payload that is no object or whose
\* 'current_session' is null, raise AcunetixAPIError, or raise ValueError
\* before any request because the scan_id is empty (api_client.py 146-147)
ScanCheckOutcomes ==
    {"completed", "failed", "running", "stopped", "non_object", "error",
     "value_error"}

\* api_client.fetch_scan lines 146-150: 'if not scan_id: raise ValueError',
\* otherwise what the request for the scan answers
FetchScan(id, answer) == IF id = "" THEN "value_error" ELSE answer

\* lines 73-89: the body of the loop for one answer
CheckBody(outcome) ==
    IF outcome = "error" THEN "return_false"         \* except AcunetixAPIError
    ELSE IF outcome = "value_error" THEN "raise_value"   \* not caught at line 88
    ELSE IF outcome = "non_object" THEN "raise"      \* line 75: AttributeError
    ELSE IF outcome = "completed" THEN "return_true"
    ELSE IF outcome = "failed" THEN "return_false"
    ELSE "sleep_continue"

\* lines 72-96: one iteration of the loop, with the sleep of line 93 after an
\* answer that does not end the wait, and the return after the last one
CheckStep(c, outcome) ==
    LET body == CheckBody(outcome)
        n == c.checks + 1
    IN  IF body = "return_true"
        THEN [checks |-> n, sleeps |-> c.sleeps, result |-> "True"]
        ELSE IF body = "return_false"
        THEN [checks |-> n, sleeps |-> c.sleeps, result |-> "False"]
        ELSE IF body = "raise"
        THEN [checks |-> n, sleeps |-> c.sleeps, result |-> "AttributeError"]
        ELSE IF body = "raise_value"
        THEN [checks |-> n, sleeps |-> c.sleeps, result |-> "ValueError"]
        ELSE [checks |-> n, sleeps |-> c.sleeps + 1,
              result |-> IF n >= MaxChecks THEN "False" ELSE "waiting"]

-----------------------------------------------------------------------------
(* The remote service: scans of the listing and the report of each scan *)

\* a completed report payload, by the shape of the fields the locator is read
\* from: 'download', 'download_url' and 'report_id'
PayloadDirect == [download |-> "str", download_url |-> "absent", report_id |-> "str"]
PayloadNoLocator ==
    [download |-> "list_dict_nourl", download_url |-> "absent", report_id |-> "str"]

\* the shapes of the 'download' field: absent, null, a string (empty or not),
\* a list that is empty or whose first element is a non-empty string, an
\* object with a 'url', an object without one, or something else
DownloadShapes ==
    {"absent", "null", "str", "str_empty", "list_empty", "list_str",
     "list_dict_url", "list_dict_nourl", "list_other"}

\* 'download_url' and 'report_id' are absent, a non-empty string, or null
FieldShapes == {"absent", "str", "null"}

Payloads ==
    [download : DownloadShapes, download_url : FieldShapes, report_id : FieldShapes]

\* what download_report meets once it has built the URL: the body is
\* streamed to the file, session.get or raise_for_status raises a
\* RequestException, or open / write of the report file raises OSError
DownloadOutcomes == {"ok", "request_exception", "os_error"}

\* the answers of the polls of a report, in order (see PlanAt)
PlanFast == <<"completed">>
PlanSlow == <<"running", "running", "completed">>
FailingPlans == {<<"empty", "failed">>, <<"running", "cancelled">>,
                 <<"running", "error">>, <<"running", "non_object">>, <<"running">>}

\* a completed scan with ids, whose report is generated, found and downloaded:
\* dict is whether the entry is a JSON object, session whether its
\* 'current_session' is an object, gen what POST /reports does for its
\* target, plan what the polls answer, payload the completed report and
\* download what download_report returns; severity_counts is "dict" when the
\* 'severity_counts' of the session is an object or absent, "non_dict" when
\* it is null or an array; text is "utf8" when the strings of the entry that
\* reach the e-mail (the target description, start_date, the keys and values
\* of severity_counts) can be encoded, "surrogate" when one of them holds a
\* lone surrogate outside U+DC80..U+DCFF (which JSON allows),
\* "surrogate_escape" when the lone surrogates they hold are all of
\* U+DC80..U+DCFF; target is what lines 146-147 read the name of the report
\* file from: "dict" when the 'target' of the entry is absent or an object
\* whose 'description' is absent or a string, "non_dict" when it is null or no
\* object (.get raises AttributeError), "description_non_str" when the
\* description is null or a number (the iteration of line 147 raises
\* TypeError); mkdir is what report_path.parent.mkdir (line 187) does: "ok",
\* or "os_error" when the reports directory cannot be created
BaseScan(s) ==
    [dict |-> TRUE, scan_id |-> s, target_id |-> TargetOf(s), session |-> "dict",
     status |-> "completed", gen |-> "ok", plan |-> PlanFast,
     payload |-> PayloadDirect, download |-> "ok", severity_counts |-> "dict",
     text |-> "utf8", target |-> "dict", mkdir |-> "ok"]

NonDictScan ==
    [BaseScan("s1") EXCEPT !.dict = FALSE, !.scan_id = NoneVal, !.target_id = NoneVal,
                           !.session = "null", !.status = NoneVal]

NotCompletedScans ==
    {[BaseScan(s) EXCEPT !.status = st] :
        s \in Ids, st \in (ScanStatusValues \ {"completed"}) \cup {NoneVal}}

InvalidScans ==
    {[BaseScan("s1") EXCEPT !.scan_id = NoneVal],
     [BaseScan("s1") EXCEPT !.target_id = NoneVal],
     [BaseScan("s1") EXCEPT !.session = "null", !.status = NoneVal]}

CompletedScans ==
    UNION {
        {BaseScan(s), [BaseScan(s) EXCEPT !.plan = PlanSlow],
         [BaseScan(s) EXCEPT !.gen = "api_error"],
         [BaseScan(s) EXCEPT !.gen = "no_report_id"],
         [BaseScan(s) EXCEPT !.payload = PayloadNoLocator],
         [BaseScan(s) EXCEPT !.download = "request_exception"]}
        \cup {[BaseScan(s) EXCEPT !.plan = p] : p \in FailingPlans}
        : s \in Ids}

\* a completed scan whose report payload has any shape, and one whose report
\* file cannot be written
PayloadScans ==
    {[BaseScan("s1") EXCEPT !.payload = p] : p \in Payloads}
    \cup {[BaseScan("s1") EXCEPT !.download = "os_error"]}

\* a completed scan whose session holds no object as 'severity_counts'
SeverityScans == {[BaseScan(s) EXCEPT !.severity_counts = "non_dict"] : s \in Ids}

\* a completed scan with a lone surrogate in one of its strings
SurrogateScans ==
    {[BaseScan(s) EXCEPT !.text = t] :
        s \in Ids, t \in {"surrogate", "surrogate_escape"}}

\* a completed scan whose report is ready and whose file cannot be named, and
\* one whose reports directory cannot be created
TargetScans ==
    {[BaseScan(s) EXCEPT !.target = t] :
        s \in Ids, t \in {"non_dict", "description_non_str"}}
    \cup {[BaseScan(s) EXCEPT !.mkdir = "os_error"] : s \in Ids}
    \cup {[BaseScan("s1") EXCEPT !.target = "non_dict", !.payload = PayloadNoLocator],
          [BaseScan("s1") EXCEPT !.mkdir = "os_error", !.payload = PayloadNoLocator],
          [BaseScan("s1") EXCEPT !.mkdir = "os_error", !.download = "request_exception"]}

ScanEntries ==
    {NonDictScan} \cup InvalidScans \cup NotCompletedScans \cup CompletedScans
    \cup PayloadScans \cup SeverityScans \cup SurrogateScans \cup TargetScans

\* the entries the listings of the runs are built from: every way a scan
\* fails, for scan s1, and a second scan that succeeds or is scheduled
ListedScans ==
    {NonDictScan} \cup InvalidScans
    \cup {e \in CompletedScans : e.scan_id = "s1"}
    \cup {[BaseScan("s1") EXCEPT !.status = st] : st \in {"scheduled", "running"}}
    \cup {BaseScan("s2"), [BaseScan("s2") EXCEPT !.status = "scheduled"]}
    \cup {e \in SeverityScans : e.scan_id = "s2"}
    \cup {e \in SurrogateScans : e.scan_id = "s2" /\ e.text = "surrogate_escape"}

Listings == UNION {[1..n -> ListedScans] : n \in 0..MaxScans}

\* GET /scans fails (fetch_all_scans raises, or its answer is no object:
\* both become ScanProcessorError at lines 294-299), or returns a listing
NoRemote == [listing |-> "unobserved", scans |-> <<>>]

Remotes ==
    {[listing |-> "api_error", scans |-> <<>>]}
    \cup {[listing |-> "ok", scans |-> l] : l \in Listings}

-----------------------------------------------------------------------------
(* The store file and _load_processed_scans / _save_processed_scans *)

AbsentFile == [kind |-> "absent", ids |-> {}]

\* content on which json.load or set() raises: no JSON (an empty or partial
\* file), a JSON number or null, an array with an item that is no scalar
CorruptFile == [kind |-> "corrupt", ids |-> {}]

\* a JSON array of scan_ids
ValidFile(ids) == [kind |-> "valid", ids |-> ids]

\* valid JSON that is no array and on which set() does not raise: a JSON
\* object, of which set() takes the keys
ObjectFile(keys) == [kind |-> "object", ids |-> keys]

\* the JSON string "s1", of which set() takes the characters
StringFile == [kind |-> "string", ids |-> {"s", "1"}]

\* the file exists and holds the array ids, but open(processed_file, 'r') raises
\* (the process may write the file and may not read it)
UnreadableFile(ids) == [kind |-> "unreadable", ids |-> ids]

\* the states the file can be in when a run starts
StoreFiles ==
    {AbsentFile, CorruptFile, StringFile}
    \cup {ValidFile(set) : set \in SUBSET Ids}
    \cup {UnreadableFile(set) : set \in SUBSET Ids}
    \cup {ObjectFile(set) : set \in SUBSET Ids}

\* a load that never reads the file
LoadNothing(f) == {}

\* lines 34-46: the file does not exist: the set stays empty; open, json.load
\* or set() raises: the set is reset to empty; otherwise set(json.load(f)),
\* whatever JSON the file holds: the items of an array, the keys of an
\* object, the characters of a string
LoadProcessedScans(f) ==
    IF f.kind \in {"valid", "object", "string"} THEN f.ids ELSE {}

\* how a write of the store file can go: it succeeds, mkdir or open raises
\* (the file is left as it was), or open has truncated the file and the
\* write raises (the file holds no JSON array any more; a file the process
\* may not read stays one)
SaveOutcomes == {"ok", "fail_before_open", "fail_after_truncate"}

\* open(processed_file, 'w') and json.dump: what the file holds afterwards
SaveProcessedScans(f, set, outcome) ==
    IF outcome = "ok"
    THEN (IF f.kind = "unreadable" THEN UnreadableFile(set) ELSE ValidFile(set))
    ELSE IF outcome = "fail_before_open" THEN f
    ELSE IF f.kind = "unreadable" THEN UnreadableFile({})
    ELSE CorruptFile

-----------------------------------------------------------------------------
(* _generate_scan_report *)

\* lines 152-184: the download locator of a completed report payload
ExtractLocator(report) ==
    IF report.download \in {"str", "str_empty"}
    THEN (IF report.download = "str" THEN "download" ELSE NoneVal)
    ELSE IF report.download \in {"list_str", "list_dict_url", "list_dict_nourl", "list_other"}
    THEN (IF report.download = "list_dict_url" THEN "download[0].url"
          ELSE IF report.download = "list_str" THEN "download[0]"
          ELSE NoneVal)
    ELSE IF report.download_url # "absent"
    THEN (IF report.download_url = "str" THEN "download_url" ELSE NoneVal)
    ELSE IF report.report_id # "absent"
    THEN (IF report.report_id = "str" THEN "report_id" ELSE NoneVal)
    ELSE NoneVal

\* a download_report that reports success whatever happened
DownloadReportTrusting(locator, outcome) == TRUE

\* api_client.download_report: False for an empty locator (line 210); every
\* exception of the request and of the file is caught (lines 257-265) and
\* False is returned; True once the body is written
DownloadReport(locator, outcome) ==
    IF locator = NoneVal THEN FALSE ELSE outcome = "ok"

\* lines 196-204: the fields of the ScanResult the model follows
ScanResult(scan) ==
    [scan_id |-> scan.scan_id, target_id |-> scan.target_id, status |-> scan.status,
     severity_counts |-> scan.severity_counts, text |-> scan.text]

\* what one call did: the terminal state of the scan, the remote calls made
\* (gen, polls, dl), the sleeps, the last poll answer, the value returned
\* (<<>> for None) and whether an exception left the function
Outcome(state, gen, w, lastPoll, dl, result, raises) ==
    [state |-> state, gen |-> gen, polls |-> w.polls, sleeps |-> w.sleeps,
     lastPoll |-> lastPoll, dl |-> dl, result |-> result, raises |-> raises]

NoWait == [polls |-> 0, sleeps |-> 0, result |-> "none"]

\* a filter without the check of line 111: an entry without ids goes on
SkipReasonNoIdCheck(scan, processed) ==
    IF scan.scan_id \in processed THEN "skipped_processed"
    ELSE IF scan.status = "scheduled" THEN "skipped_scheduled"
    ELSE IF scan.status # "completed" THEN "skipped_not_completed"
    ELSE "eligible"

\* a filter without the check of line 126: only scheduled scans are skipped
SkipReasonScheduledOnly(scan, processed) ==
    IF scan.scan_id = NoneVal \/ scan.target_id = NoneVal THEN "invalid"
    ELSE IF scan.scan_id \in processed THEN "skipped_processed"
    ELSE IF scan.status = "scheduled" THEN "skipped_scheduled"
    ELSE "eligible"

\* lines 111-128: why a scan is not processed, or "eligible"
SkipReason(scan, processed) ==
    IF scan.scan_id = NoneVal \/ scan.target_id = NoneVal THEN "invalid"
    ELSE IF scan.scan_id \in processed THEN "skipped_processed"
    ELSE IF scan.status = "scheduled" THEN "skipped_scheduled"
    ELSE IF scan.status # "completed" THEN "skipped_not_completed"
    ELSE "eligible"

\* lines 146-147: the name of the report file is made from the description
\* of the target, which raises when the target is no object or the
\* description no string
TargetName(scan) == IF scan.target = "dict" THEN "str" ELSE "raises"

\* lines 130-211: generation, wait, file name, locator, reports directory and
\* download for an eligible scan; an exception of generate_report, of
\* _wait_for_report, of the naming of the file (lines 146-147) or of mkdir
\* (line 187) is caught at line 209 and None is returned
ReportPipeline(scan) ==
    IF scan.gen # "ok"
    THEN Outcome("report_failed", 1, NoWait, NoneVal, 0, <<>>, FALSE)
    ELSE LET w == WaitForReport(scan.plan)
             lp == PlanAt(scan.plan, w.polls)
         IN  IF w.result # "report"
             THEN Outcome("report_failed", 1, w, lp, 0, <<>>, FALSE)
             ELSE IF TargetName(scan) = "raises"
             THEN Outcome("report_failed", 1, w, lp, 0, <<>>, FALSE)
             ELSE IF ExtractLocator(scan.payload) = NoneVal
             THEN Outcome("no_locator", 1, w, lp, 0, <<>>, FALSE)
             ELSE IF scan.mkdir # "ok"
             THEN Outcome("report_failed", 1, w, lp, 0, <<>>, FALSE)
             ELSE IF ~DownloadReport(ExtractLocator(scan.payload), scan.download)
             THEN Outcome("download_failed", 1, w, lp, 1, <<>>, FALSE)
             ELSE Outcome("result_ready", 1, w, lp, 1, <<ScanResult(scan)>>, FALSE)

\* lines 107-109 raise AttributeError on an entry that is no dict or whose
\* 'current_session' is null
GenerateScanReport(scan, processed) ==
    IF ~scan.dict \/ scan.session = "null"
    THEN Outcome("raised", 0, NoWait, NoneVal, 0, <<>>, TRUE)
    ELSE IF SkipReason(scan, processed) # "eligible"
    THEN Outcome(SkipReason(scan, processed), 0, NoWait, NoneVal, 0, <<>>, FALSE)
    ELSE ReportPipeline(scan)

-----------------------------------------------------------------------------
(* main() and ScanProcessor.process_scans *)

ScanIds(rs) == [k \in 1..Len(rs) |-> rs[k].scan_id]

IdSet(rs) == {rs[k].scan_id : k \in 1..Len(rs)}

NoRun == [outcome |-> "none", batch |-> <<>>]

\* a main that sends the e-mail whatever the batch holds
ShouldNotifyAlways(rs) == TRUE

\* main line 76: the notifier is called for a non-empty batch only
ShouldNotify(rs) == rs # <<>>

\* email_sender.build_email_html: result.severity_counts.items() (line 38)
\* raises AttributeError for a result whose severity_counts is no dict
BuildEmailHtml(rs) ==
    IF \E k \in 1..Len(rs) : rs[k].severity_counts # "dict"
    THEN "AttributeError" ELSE "html"

\* email_sender.send_email lines 102-128, the part before its try block: the
\* message is built with MIMEText(html_content, 'html') (line 112), which
\* encodes the HTML as UTF-8. What the encoding does with a lone surrogate
\* depends on the interpreter, which nothing in the repository fixes: every
\* version raises UnicodeEncodeError for a surrogate outside U+DC80..U+DCFF;
\* for one of U+DC80..U+DCFF the email package of some versions raises and
\* that of others (3.13) builds the message. The value is the set of
\* outcomes
BuildMessage(rs) ==
    IF \E k \in 1..Len(rs) : rs[k].text = "surrogate"
    THEN {"UnicodeEncodeError"}
    ELSE IF \E k \in 1..Len(rs) : rs[k].text = "surrogate_escape"
    THEN {"UnicodeEncodeError", "message"}
    ELSE {"message"}

\* mark_as_processed line 259: only a new scan_id is added and saved
ShouldSave(scan_id, processed) == scan_id \notin processed

\* a main that marks the batch whatever send_email returned
ShouldCommitAlways(sent) == TRUE

\* main line 96: the batch is committed only when send_email returned True
ShouldCommit(sent) == sent

WaitIdle ==
    /\ polls = 0
    /\ sleeps = 0
    /\ pollLog = <<>>
    /\ waitResult = "waiting"
    /\ checks = 0
    /\ checkSleeps = 0
    /\ checkLog = <<>>
    /\ completion = "waiting"
    /\ wait_scan_id = NoneVal

\* no call of generate_report or delete_reports
ApiIdle ==
    /\ api_call = "none"
    /\ target_id = NoneVal
    /\ report_ids = <<>>
    /\ deleted = "none"
    /\ max_retries = 0
    /\ attempt = 0
    /\ api_result = "none"
    /\ requestLog = <<>>
    /\ last_exception = NoneVal
    /\ backoffs = <<>>

\* no call of download_report
UrlIdle ==
    /\ config_url = <<>>
    /\ url_suffix = <<>>
    /\ full_url = <<>>

\* no report file named
NameIdle ==
    /\ target_name = <<>>
    /\ timestamp = <<>>
    /\ report_filename = <<>>
    /\ descriptions = <<>>
    /\ now = 0
    /\ report_paths = <<>>

Init ==
    /\ pc = "idle"
    /\ exitCode = "none"
    /\ remote = NoRemote
    /\ file = AbsentFile
    /\ processed_scans = {}
    /\ scans = <<>>
    /\ idx = 0
    /\ results = <<>>
    /\ handled = <<>>
    /\ email_sent = "none"
    /\ cidx = 0
    /\ loaded = {}
    /\ fileAtStart = AbsentFile
    /\ notified = {}
    /\ notifyInput = <<>>
    /\ saveFailed = FALSE
    /\ last = NoRun
    /\ lastSave = "none"
    /\ durable = {}
    /\ WaitIdle
    /\ ApiIdle
    /\ UrlIdle
    /\ NameIdle

\* the end of a run: sys.exit(code), or main() returning (code "0")
EndRun(code, outcome, rs) ==
    /\ pc' = "exited"
    /\ exitCode' = code
    /\ last' = [outcome |-> outcome, batch |-> ScanIds(rs)]

\* ScanProcessor.__init__ (main line 73): the Processed Set is loaded
LoadRun ==
    /\ pc' = "loaded"
    /\ exitCode' = "none"
    /\ processed_scans' = LoadProcessedScans(file)
    /\ loaded' = LoadProcessedScans(file)
    /\ fileAtStart' = file
    /\ scans' = <<>>
    /\ idx' = 0
    /\ results' = <<>>
    /\ handled' = <<>>
    /\ email_sent' = "none"
    /\ cidx' = 0
    /\ notifyInput' = <<>>
    /\ saveFailed' = FALSE
    /\ lastSave' = "none"
    /\ UNCHANGED <<file, notified, durable, waitVars, apiVars, urlVars, nameVars>>

\* main lines 58-73: a run against a remote service in any state
StartRun ==
    /\ pc = "idle"
    /\ remote' \in Remotes
    /\ last' = NoRun
    /\ LoadRun

\* main lines 58-73: the program is run again while the remote service is in
\* the state the previous run saw
Rerun ==
    /\ pc = "exited"
    /\ UNCHANGED <<remote, last>>
    /\ LoadRun

\* the process is gone and the remote service moves on: only the file remains
ProcessExit ==
    /\ pc = "exited"
    /\ pc' = "idle"
    /\ exitCode' = "none"
    /\ remote' = NoRemote
    /\ processed_scans' = {}
    /\ scans' = <<>>
    /\ idx' = 0
    /\ results' = <<>>
    /\ handled' = <<>>
    /\ email_sent' = "none"
    /\ cidx' = 0
    /\ loaded' = {}
    /\ fileAtStart' = file
    /\ notifyInput' = <<>>
    /\ saveFailed' = FALSE
    /\ last' = NoRun
    /\ lastSave' = "none"
    /\ UNCHANGED <<file, notified, durable, waitVars, apiVars, urlVars, nameVars>>

\* a process_scans that takes a failed listing for an empty one
FetchScansSwallowsError ==
    /\ pc = "loaded"
    /\ scans' = remote.scans
    /\ idx' = 1
    /\ pc' = IF remote.scans = <<>> THEN "batch" ELSE "scanning"
    /\ UNCHANGED <<exitCode, last, remote, file, processed_scans, results, handled,
                   email_sent, cidx, loaded, fileAtStart, notified, notifyInput,
                   saveFailed, lastSave, durable, waitVars, apiVars, urlVars, nameVars>>

\* process_scans lines 270-282 and 294-296: fetch_all_scans raises
\* AcunetixAPIError, which becomes ScanProcessorError and sys.exit(1) in main
\* (lines 111-113); or the listing is empty and [] is returned; or the loop starts
FetchScans ==
    /\ pc = "loaded"
    /\ IF remote.listing = "api_error"
       THEN /\ EndRun("1", "aborted", results)
            /\ UNCHANGED <<scans, idx>>
       ELSE /\ scans' = remote.scans
            /\ idx' = 1
            /\ pc' = IF remote.scans = <<>> THEN "batch" ELSE "scanning"
            /\ UNCHANGED <<exitCode, last>>
    /\ UNCHANGED <<remote, file, processed_scans, results, handled, email_sent, cidx,
                   loaded, fileAtStart, notified, notifyInput, saveFailed, lastSave, durable, waitVars, apiVars, urlVars, nameVars>>

\* a process_scans that marks a scan as processed as soon as its report is there
ProcessScanMarks ==
    /\ pc = "scanning"
    /\ idx <= Len(scans)
    /\ LET scan == scans[idx]
           out == GenerateScanReport(scan, processed_scans)
       IN  /\ handled' = Append(handled, out)
           /\ results' = results \o out.result
           /\ processed_scans' =
                processed_scans \cup {out.result[k].scan_id : k \in 1..Len(out.result)}
           /\ file' = IF out.result = <<>> THEN file ELSE ValidFile(processed_scans')
           /\ IF out.raises /\ ~scan.dict
              THEN /\ EndRun("1", "aborted", results \o out.result)
                   /\ UNCHANGED idx
              ELSE /\ idx' = idx + 1
                   /\ pc' = IF idx = Len(scans) THEN "batch" ELSE "scanning"
                   /\ UNCHANGED <<exitCode, last>>
    /\ UNCHANGED <<remote, scans, email_sent, cidx, loaded,
                   fileAtStart, notified, notifyInput, saveFailed, lastSave, durable, waitVars, apiVars, urlVars, nameVars>>

\* process_scans lines 284-292: one iteration of the loop over the listing. An
\* exception leaving _generate_scan_report is caught at line 289, whose handler
\* evaluates scan.get('scan_id'): on an entry that is no dict this raises
\* again, outside the inner try, and becomes ScanProcessorError at line 297.
ProcessScan ==
    /\ pc = "scanning"
    /\ idx <= Len(scans)
    /\ LET scan == scans[idx]
           out == GenerateScanReport(scan, processed_scans)
       IN  /\ handled' = Append(handled, out)
           /\ results' = results \o out.result
           /\ IF out.raises /\ ~scan.dict
              THEN /\ EndRun("1", "aborted", results \o out.result)
                   /\ UNCHANGED idx
              ELSE /\ idx' = idx + 1
                   /\ pc' = IF idx = Len(scans) THEN "batch" ELSE "scanning"
                   /\ UNCHANGED <<exitCode, last>>
    /\ UNCHANGED <<remote, file, processed_scans, scans, email_sent, cidx, loaded,
                   fileAtStart, notified, notifyInput, saveFailed, lastSave, durable, waitVars, apiVars, urlVars, nameVars>>

\* main lines 76-106: no results, nothing to report; otherwise the HTML of
\* the e-mail is built, and an exception of build_email_html reaches the
\* 'except Exception' of main (lines 117-119), which exits with status 1;
\* then one send_email for the whole batch, which raises while it builds the
\* message (the same 'except Exception', status 1, email_sent never
\* assigned) or returns True or False. What the model keeps of send_email is
\* its input and its result, not whether a mail reached the server
Notify ==
    /\ pc = "batch"
    /\ IF ~ShouldNotify(results)
       THEN /\ EndRun("0", "nothing", results)
            /\ UNCHANGED <<email_sent, cidx, notified, notifyInput>>
       ELSE IF BuildEmailHtml(results) # "html"
       THEN /\ EndRun("1", "unexpected_error", results)
            /\ UNCHANGED <<email_sent, cidx, notified, notifyInput>>
       ELSE \E built \in BuildMessage(results) :
            IF built # "message"
            THEN /\ notifyInput' = Append(notifyInput, results)
                 /\ EndRun("1", "unexpected_error", results)
                 /\ UNCHANGED <<email_sent, cidx, notified>>
            ELSE \E sent \in BOOLEAN :
                 /\ notifyInput' = Append(notifyInput, results)
                 /\ email_sent' = IF sent THEN "sent" ELSE "failed"
                 /\ notified' = IF sent THEN notified \cup IdSet(results) ELSE notified
                 /\ IF ShouldCommit(sent)
                    THEN /\ pc' = "committing"
                         /\ cidx' = 1
                         /\ UNCHANGED <<exitCode, last>>
                    ELSE /\ EndRun("0", IF sent THEN "sent" ELSE "notify_failed",
                                   results)
                         /\ UNCHANGED cidx
    /\ UNCHANGED <<remote, file, processed_scans, scans, idx, results, handled, loaded,
                   fileAtStart, saveFailed, lastSave, durable, waitVars, apiVars, urlVars, nameVars>>

\* a commit loop that a failed write of the store file ends with exit status 1
CommitStopsOnFailure ==
    /\ pc = "committing"
    /\ cidx <= Len(results)
    /\ \E outcome \in SaveOutcomes :
        LET scan_id == results[cidx].scan_id
            saved == ShouldSave(scan_id, processed_scans)
            failed == saved /\ outcome # "ok"
        IN  /\ processed_scans' = processed_scans \cup {scan_id}
            /\ file' = IF saved
                       THEN SaveProcessedScans(file, processed_scans', outcome)
                       ELSE file
            /\ saveFailed' = (saveFailed \/ failed)
            /\ lastSave' = IF saved THEN outcome ELSE lastSave
            /\ durable' = IF saved /\ outcome = "ok" THEN processed_scans' ELSE durable
            /\ cidx' = cidx + 1
            /\ IF failed THEN EndRun("1", "aborted", results)
               ELSE IF cidx = Len(results) THEN EndRun("0", "committed", results)
               ELSE UNCHANGED <<pc, exitCode, last>>
    /\ UNCHANGED <<remote, scans, idx, results, handled, email_sent, loaded,
                   fileAtStart, notified, notifyInput, waitVars, apiVars, urlVars, nameVars>>

\* main lines 98-100 and mark_as_processed: one result of the batch is marked;
\* a new scan_id is added to the set and the whole set is written to the
\* file, a write that may fail without the failure leaving _save_processed_scans
Commit ==
    /\ pc = "committing"
    /\ cidx <= Len(results)
    /\ LET scan_id == results[cidx].scan_id
       IN  IF ShouldSave(scan_id, processed_scans)
           THEN \E outcome \in SaveOutcomes :
                /\ processed_scans' = processed_scans \cup {scan_id}
                /\ file' = SaveProcessedScans(file, processed_scans', outcome)
                /\ saveFailed' = (saveFailed \/ outcome # "ok")
                /\ lastSave' = outcome
                /\ durable' = IF outcome = "ok" THEN processed_scans' ELSE durable
           ELSE UNCHANGED <<processed_scans, file, saveFailed, lastSave, durable>>
    /\ cidx' = cidx + 1
    /\ IF cidx = Len(results)
       THEN EndRun("0", "committed", results)
       ELSE UNCHANGED <<pc, exitCode, last>>
    /\ UNCHANGED <<remote, scans, idx, results, handled, email_sent, loaded,
                   fileAtStart, notified, notifyInput, waitVars, apiVars, urlVars, nameVars>>

\* the exit status of a process whose main() is left by a KeyboardInterrupt
\* nothing catches: it depends on the interpreter, which nothing in the
\* repository fixes. CPython up to 3.7 prints the traceback and exits with
\* status 1; from 3.8 on it ends the process with SIGINT (status 130)
UncaughtInterruptCodes == {"1", "130"}

\* main lines 114-116: a KeyboardInterrupt raised in the try block is logged
\* and the run ends with sys.exit(0); a second interrupt inside this handler
\* leaves main() uncaught
InterruptedExit(rs) ==
    \E code \in {"0"} \cup UncaughtInterruptCodes : EndRun(code, "interrupted", rs)

\* the run is interrupted inside send_email (email_sender.py 102-147), which
\* never returns: email_sent is not assigned and nothing is marked, whether
\* server.send_message had returned or not
InterruptInSendEmail ==
    /\ pc = "batch"
    /\ ShouldNotify(results)
    /\ BuildEmailHtml(results) = "html"
    /\ notifyInput' = Append(notifyInput, results)
    /\ InterruptedExit(results)
    /\ UNCHANGED <<remote, file, processed_scans, scans, idx, results, handled,
                   email_sent, cidx, loaded, fileAtStart, notified, saveFailed,
                   lastSave, durable, waitVars, apiVars, urlVars, nameVars>>

\* the run is interrupted inside the handler of 'except ScanProcessorError'
\* (lines 111-113) or of 'except Exception' (lines 117-119), before its
\* sys.exit(1): the KeyboardInterrupt leaves main() uncaught. The handlers are
\* entered by a failed listing, by a listed entry that is no object, by
\* build_email_html raising and by send_email raising
InterruptInHandler ==
    /\ \/ /\ pc = "loaded"
          /\ remote.listing = "api_error"
          /\ UNCHANGED <<results, handled, notifyInput>>
       \/ /\ pc = "scanning"
          /\ idx <= Len(scans)
          /\ LET out == GenerateScanReport(scans[idx], processed_scans)
             IN  /\ out.raises /\ ~scans[idx].dict
                 /\ handled' = Append(handled, out)
                 /\ results' = results \o out.result
          /\ UNCHANGED notifyInput
       \/ /\ pc = "batch"
          /\ ShouldNotify(results)
          /\ BuildEmailHtml(results) # "html"
          /\ UNCHANGED <<results, handled, notifyInput>>
       \/ /\ pc = "batch"
          /\ ShouldNotify(results)
          /\ BuildEmailHtml(results) = "html"
          /\ "UnicodeEncodeError" \in BuildMessage(results)
          /\ notifyInput' = Append(notifyInput, results)
          /\ UNCHANGED <<results, handled>>
    /\ \E code \in UncaughtInterruptCodes : EndRun(code, "interrupted", results')
    /\ UNCHANGED <<remote, file, processed_scans, scans, idx, email_sent, cidx,
                   loaded, fileAtStart, notified, saveFailed, lastSave, durable,
                   waitVars, apiVars, urlVars, nameVars>>

\* the run is interrupted right after send_email returned False, before
\* main returns
InterruptAfterNotifyFailed ==
    /\ pc = "batch"
    /\ ShouldNotify(results)
    /\ BuildEmailHtml(results) = "html"
    /\ "message" \in BuildMessage(results)
    /\ notifyInput' = Append(notifyInput, results)
    /\ email_sent' = "failed"
    /\ InterruptedExit(results)
    /\ UNCHANGED <<remote, file, processed_scans, scans, idx, results, handled, cidx,
                   loaded, fileAtStart, notified, saveFailed, lastSave, durable,
                   waitVars, apiVars, urlVars, nameVars>>

\* the run is interrupted inside mark_as_processed, after the scan_id was
\* added to the set (line 260) and before _save_processed_scans opens the file
InterruptInMark ==
    /\ pc = "committing"
    /\ cidx <= Len(results)
    /\ ShouldSave(results[cidx].scan_id, processed_scans)
    /\ processed_scans' = processed_scans \cup {results[cidx].scan_id}
    /\ InterruptedExit(results)
    /\ UNCHANGED <<remote, file, scans, idx, results, handled, email_sent, cidx, loaded,
                   fileAtStart, notified, notifyInput, saveFailed, lastSave, durable,
                   waitVars, apiVars, urlVars, nameVars>>

\* the run is interrupted right after the last mark_as_processed returned,
\* before main returns (main lines 100-104)
InterruptAfterLastMark ==
    /\ pc = "committing"
    /\ cidx = Len(results)
    /\ LET scan_id == results[cidx].scan_id
       IN  IF ShouldSave(scan_id, processed_scans)
           THEN \E outcome \in SaveOutcomes :
                /\ processed_scans' = processed_scans \cup {scan_id}
                /\ file' = SaveProcessedScans(file, processed_scans', outcome)
                /\ saveFailed' = (saveFailed \/ outcome # "ok")
                /\ lastSave' = outcome
                /\ durable' = IF outcome = "ok" THEN processed_scans' ELSE durable
           ELSE UNCHANGED <<processed_scans, file, saveFailed, lastSave, durable>>
    /\ cidx' = cidx + 1
    /\ InterruptedExit(results)
    /\ UNCHANGED <<remote, scans, idx, results, handled, email_sent, loaded,
                   fileAtStart, notified, notifyInput, waitVars, apiVars, urlVars, nameVars>>

\* the user interrupts the run (KeyboardInterrupt, which no 'except
\* Exception' catches) between two steps
Interrupt ==
    /\ pc \in {"loaded", "scanning", "batch", "committing"}
    /\ InterruptedExit(results)
    /\ UNCHANGED <<remote, file, processed_scans, scans, idx, results, handled,
                   email_sent, cidx, loaded, fileAtStart, notified, notifyInput,
                   saveFailed, lastSave, durable, waitVars, apiVars, urlVars, nameVars>>

\* the run is interrupted inside _save_processed_scans, after
\* open(processed_file, 'w') has truncated the file and before json.dump has
\* written the array
InterruptInSave ==
    /\ pc = "committing"
    /\ cidx <= Len(results)
    /\ ShouldSave(results[cidx].scan_id, processed_scans)
    /\ processed_scans' = processed_scans \cup {results[cidx].scan_id}
    /\ file' = SaveProcessedScans(file, processed_scans', "fail_after_truncate")
    /\ lastSave' = "interrupted"
    /\ InterruptedExit(results)
    /\ UNCHANGED <<remote, scans, idx, results, handled, email_sent, cidx, loaded,
                   fileAtStart, notified, notifyInput, saveFailed, durable, waitVars, apiVars, urlVars, nameVars>>

Next ==
    \/ StartRun
    \/ Rerun
    \/ ProcessExit
    \/ FetchScans
    \/ ProcessScan
    \/ Notify
    \/ Commit

Spec == Init /\ [][Next]_vars

-----------------------------------------------------------------------------
(* _wait_for_report, one poll per step *)

MainIdle ==
    /\ pc = "idle"
    /\ exitCode = "none"
    /\ remote = NoRemote
    /\ file = AbsentFile
    /\ processed_scans = {}
    /\ scans = <<>>
    /\ idx = 0
    /\ results = <<>>
    /\ handled = <<>>
    /\ email_sent = "none"
    /\ cidx = 0
    /\ loaded = {}
    /\ fileAtStart = AbsentFile
    /\ notified = {}
    /\ notifyInput = <<>>
    /\ saveFailed = FALSE
    /\ last = NoRun
    /\ lastSave = "none"
    /\ durable = {}

InitWait == MainIdle /\ WaitIdle /\ ApiIdle /\ UrlIdle /\ NameIdle

\* one iteration of the loop of _wait_for_report: get_report_status answers
\* outcome, and the loop returns, continues, or sleeps and continues
PollReport ==
    /\ waitResult = "waiting"
    /\ \E outcome \in PollOutcomes :
        LET w == WaitStep([polls |-> polls, sleeps |-> sleeps, result |-> waitResult],
                          outcome)
        IN  /\ polls' = w.polls
            /\ sleeps' = w.sleeps
            /\ waitResult' = w.result
            /\ pollLog' = Append(pollLog, outcome)
    /\ UNCHANGED <<mainVars, scanWaitVars, apiVars, urlVars, nameVars>>

NextWait == PollReport

SpecWait == InitWait /\ [][NextWait]_vars

-----------------------------------------------------------------------------
(* _wait_for_scan_completion, one status check per step *)

\* _wait_for_scan_completion is called with any scan_id, the empty one included
InitCheck ==
    /\ MainIdle
    /\ ApiIdle
    /\ UrlIdle
    /\ NameIdle
    /\ polls = 0
    /\ sleeps = 0
    /\ pollLog = <<>>
    /\ waitResult = "waiting"
    /\ checks = 0
    /\ checkSleeps = 0
    /\ checkLog = <<>>
    /\ completion = "waiting"
    /\ wait_scan_id \in {"", "s1"}

\* one iteration of the loop of _wait_for_scan_completion: fetch_scan is
\* called with the scan_id and the remote service, when asked, gives answer
CheckScan ==
    /\ completion = "waiting"
    /\ \E answer \in ScanCheckOutcomes \ {"value_error"} :
        LET outcome == FetchScan(wait_scan_id, answer)
            c == CheckStep([checks |-> checks, sleeps |-> checkSleeps,
                            result |-> completion], outcome)
        IN  /\ checks' = c.checks
            /\ checkSleeps' = c.sleeps
            /\ completion' = c.result
            /\ checkLog' = Append(checkLog, outcome)
    /\ UNCHANGED <<polls, sleeps, pollLog, waitResult, wait_scan_id>>
    /\ UNCHANGED <<mainVars, apiVars, urlVars, nameVars>>

NextCheck == CheckScan

SpecCheck == InitCheck /\ [][NextCheck]_vars

-----------------------------------------------------------------------------
(* process_scans on a listing of one scan, for every scan and every loaded set *)

InitScan ==
    /\ \E e \in ScanEntries, set \in SUBSET Ids :
        /\ remote = [listing |-> "ok", scans |-> <<e>>]
        /\ scans = <<e>>
        /\ processed_scans = set
        /\ loaded = set
        /\ file = ValidFile(set)
        /\ fileAtStart = ValidFile(set)
        /\ durable = set
    /\ pc = "scanning"
    /\ exitCode = "none"
    /\ idx = 1
    /\ results = <<>>
    /\ handled = <<>>
    /\ email_sent = "none"
    /\ cidx = 0
    /\ notified = {}
    /\ notifyInput = <<>>
    /\ saveFailed = FALSE
    /\ last = NoRun
    /\ lastSave = "none"
    /\ WaitIdle
    /\ ApiIdle
    /\ UrlIdle
    /\ NameIdle

NextScan == ProcessScan

SpecScan == InitScan /\ [][NextScan]_vars

-----------------------------------------------------------------------------
(* runs of main() that an interrupt may end at any point *)

NextCrash ==
    \/ Next
    \/ Interrupt
    \/ InterruptInMark
    \/ InterruptInSave
    \/ InterruptAfterLastMark
    \/ InterruptInSendEmail
    \/ InterruptAfterNotifyFailed
    \/ InterruptInHandler

SpecCrash == Init /\ [][NextCrash]_vars

-----------------------------------------------------------------------------
(* a run of main() that starts with the store file in any state *)

InitStore ==
    /\ pc = "idle"
    /\ exitCode = "none"
    /\ remote = NoRemote
    /\ file \in StoreFiles
    /\ fileAtStart = file
    /\ durable = LoadProcessedScans(file)
    /\ processed_scans = {}
    /\ scans = <<>>
    /\ idx = 0
    /\ results = <<>>
    /\ handled = <<>>
    /\ email_sent = "none"
    /\ cidx = 0
    /\ loaded = {}
    /\ notified = {}
    /\ notifyInput = <<>>
    /\ saveFailed = FALSE
    /\ last = NoRun
    /\ lastSave = "none"
    /\ WaitIdle
    /\ ApiIdle
    /\ UrlIdle
    /\ NameIdle

\* one run from each state of the file
NextStore ==
    \/ StartRun
    \/ FetchScans
    \/ ProcessScan
    \/ Notify
    \/ Commit

SpecStore == InitStore /\ [][NextStore]_vars

\* one run of main() from the absent store file when every call returns:
\* main is one sequential thread, so a step that can be taken is taken
SpecRun ==
    /\ Init
    /\ [][NextStore]_vars
    /\ WF_vars(FetchScans)
    /\ WF_vars(ProcessScan)
    /\ WF_vars(Notify)
    /\ WF_vars(Commit)

-----------------------------------------------------------------------------
(* api_client.generate_report, delete_reports and _make_request, one request
   per step *)

\* largest config.max_retries
MaxRetries == 3

\* how one session.request of _make_request can go: a response that passes
\* raise_for_status and whose body line 103 can return ("ok"), or a
\* RequestException:
\*   http_404          a response with a status outside status_forcelist
\*                     (400, 401, 404, 501): raise_for_status raises HTTPError,
\*                     whose response has a body that is a JSON object or no
\*                     JSON at all;
\*   http_404_array    the same with a body that is JSON and no object (an
\*                     array, a string, a number, null);
\*   http_503          a response with a status of status_forcelist (408, 429,
\*                     500, 502, 503, 504), whatever its body: the Retry of
\*                     the session (lines 47-52) consumes the response and
\*                     session.request raises RetryError, which carries no
\*                     response;
\*   invalid_json      a response that passes raise_for_status with a body
\*                     that is not empty and no JSON: response.json() at
\*                     line 103 raises requests' JSONDecodeError, which is a
\*                     RequestException and carries no response;
\*   connection_error, timeout   no response at all
\* NonObjectBodies are the failures whose response reaches line 115 with a
\* JSON body that is no object
NonObjectBodies == {"http_404_array"}
RequestFailures ==
    {"http_404", "http_503", "invalid_json", "connection_error", "timeout"}
        \cup NonObjectBodies
RequestOutcomes == {"ok"} \cup RequestFailures

\* generate_report lines 172-173: 'if not target_id: raise ValueError'
ValidateTargetId(t) == IF t = "" THEN "ValueError" ELSE "running"

\* line 120: a sleep follows a failed request that is not the last one
ShouldBackoff(n, retries) == n < retries

\* line 122: the sleep after the request with loop variable n, in units of
\* config.backoff_factor
Backoff(n) == 2 ^ n

\* lines 112-118: when the exception carries a response, its details are
\* read for the log with e.response.json().get('message', ...); only
\* ValueError (no JSON) is caught, so a JSON body that is no object raises
\* AttributeError. An exception without a response skips these lines
ErrorDetails(outcome) ==
    IF outcome \in NonObjectBodies THEN "AttributeError" ELSE "logged"

\* _make_request lines 96-132, the iteration with loop variable n: the
\* response is returned; or the RequestException is caught and, unless the
\* handler itself raises, the loop goes on after a sleep while
\* n < max_retries, and AcunetixAPIError is raised after the loop
MakeRequestStep(n, retries, outcome) ==
    IF outcome = "ok" THEN "returned"
    ELSE IF ErrorDetails(outcome) # "logged" THEN ErrorDetails(outcome)
    ELSE IF n < retries THEN "running"
    ELSE "AcunetixAPIError"

InitApi ==
    /\ MainIdle
    /\ WaitIdle
    /\ UrlIdle
    /\ NameIdle
    /\ api_call = "none"
    /\ target_id \in {"", "t1"}
    /\ report_ids = <<>>
    /\ deleted = "none"
    /\ max_retries \in 0..MaxRetries
    /\ attempt = 0
    /\ api_result = "none"
    /\ requestLog = <<>>
    /\ last_exception = NoneVal
    /\ backoffs = <<>>

\* the arguments of delete_reports: no report, one, two
ReportIdLists == {<<>>, <<"r1">>, <<"r1", "r2">>}

\* delete_reports lines 276-278: 'if not report_ids: return False', before any
\* request
ValidateReportIds(ids) == IF ids = <<>> THEN "False" ELSE "none"

\* delete_reports lines 280-285: True once _make_request has returned, False
\* when it raised AcunetixAPIError; another exception of _make_request
\* (AttributeError, line 115) is not caught
DeleteReportsResult(r) ==
    IF r = "returned" THEN "True"
    ELSE IF r = "AcunetixAPIError" THEN "False"
    ELSE IF r = "running" THEN "none"
    ELSE r

\* generate_report is called: the identifier is checked before any request
GenerateReport ==
    /\ api_call = "none"
    /\ api_call' = "generate_report"
    /\ api_result' = ValidateTargetId(target_id)
    /\ UNCHANGED <<target_id, report_ids, deleted, max_retries, attempt, requestLog,
                   last_exception, backoffs>>
    /\ UNCHANGED <<mainVars, waitVars, urlVars, nameVars>>

\* delete_reports is called (api_client.py 267-285): an empty list returns
\* False without a request; otherwise POST /reports/delete goes through
\* _make_request. No function of the repository calls it, so no run of
\* main() reaches it
DeleteReports ==
    /\ api_call = "none"
    /\ api_call' = "delete_reports"
    /\ \E ids \in ReportIdLists :
        /\ report_ids' = ids
        /\ deleted' = ValidateReportIds(ids)
        /\ api_result' = IF ValidateReportIds(ids) = "none" THEN "running" ELSE "none"
    /\ UNCHANGED <<target_id, max_retries, attempt, requestLog, last_exception,
                   backoffs>>
    /\ UNCHANGED <<mainVars, waitVars, urlVars, nameVars>>

\* one iteration of the loop of _make_request; when the loop ends inside
\* delete_reports, delete_reports returns or is left at once
SessionRequest ==
    /\ api_result = "running"
    /\ attempt <= max_retries
    /\ \E outcome \in RequestOutcomes :
        /\ requestLog' = Append(requestLog, outcome)
        /\ api_result' = MakeRequestStep(attempt, max_retries, outcome)
        /\ last_exception' = IF outcome = "ok" THEN last_exception ELSE outcome
        /\ backoffs' = IF /\ outcome # "ok"
                          /\ ErrorDetails(outcome) = "logged"
                          /\ ShouldBackoff(attempt, max_retries)
                       THEN Append(backoffs, Backoff(attempt))
                       ELSE backoffs
    /\ attempt' = attempt + 1
    /\ deleted' = IF api_call = "delete_reports"
                  THEN DeleteReportsResult(api_result')
                  ELSE deleted
    /\ UNCHANGED <<api_call, target_id, report_ids, max_retries>>
    /\ UNCHANGED <<mainVars, waitVars, urlVars, nameVars>>

NextApi ==
    \/ GenerateReport
    \/ DeleteReports
    \/ SessionRequest

SpecApi == InitApi /\ [][NextApi]_vars

-----------------------------------------------------------------------------
(* api_client.download_report: the URL of the download. Strings are sequences
   of characters. *)

\* most pieces a locator is made of
MaxPieces == 3

StartsWith(str, prefix) ==
    Len(str) >= Len(prefix) /\ SubSeq(str, 1, Len(prefix)) = prefix

EndsWith(str, suffix) ==
    Len(str) >= Len(suffix) /\ SubSeq(str, Len(str) - Len(suffix) + 1, Len(str)) = suffix

RECURSIVE RStrip(_, _)
\* str.rstrip(c)
RStrip(str, c) ==
    IF str # <<>> /\ str[Len(str)] = c THEN RStrip(SubSeq(str, 1, Len(str) - 1), c) ELSE str

RECURSIVE LStrip(_, _)
\* str.lstrip(c)
LStrip(str, c) ==
    IF str # <<>> /\ str[1] = c THEN LStrip(SubSeq(str, 2, Len(str)), c) ELSE str

\* str[n:] and str[:-n]
DropFirst(str, n) == SubSeq(str, n + 1, Len(str))
DropLast(str, n) == SubSeq(str, 1, Len(str) - n)

Slash == <<"/">>
HttpPrefix == <<"h", "t", "t", "p", ":", "/", "/">>
HttpsPrefix == <<"h", "t", "t", "p", "s", ":", "/", "/">>
ApiV1 == <<"/", "a", "p", "i", "/", "v", "1">>
Host == <<"h", "t", "t", "p", "s", ":", "/", "/", "h", "o", "s", "t">>

\* the values of config.url
BaseUrls == {Host, Host \o Slash, Host \o ApiV1, Host \o ApiV1 \o Slash}

ReportPath == <<"r", "e", "p", "o", "r", "t", "s", "/", "a", "b", "c", "/", "d", "o", "w", "n", "l", "o", "a", "d">>

\* what locators are made of
Pieces ==
    {Slash, <<"a", "p", "i", "/", "v", "1">>, ApiV1 \o Slash, ReportPath,
     HttpPrefix \o <<"h", "o", "s", "t", "/", "r">>, HttpsPrefix \o <<"h", "o", "s", "t", "/", "r">>}

RECURSIVE Join(_)
Join(ps) == IF ps = <<>> THEN <<>> ELSE ps[1] \o Join(SubSeq(ps, 2, Len(ps)))

\* the locators download_report is called with
Locators == {Join(ps) : ps \in UNION {[1..n -> Pieces] : n \in 1..MaxPieces}}

\* a join that does not remove the version prefix of the locator
FullUrlKeepsPrefix(base, locator) ==
    IF StartsWith(locator, HttpPrefix) \/ StartsWith(locator, HttpsPrefix)
    THEN locator
    ELSE LET stripped == RStrip(base, "/")
             base_url == IF EndsWith(stripped, ApiV1) THEN DropLast(stripped, Len(ApiV1))
                         ELSE stripped
         IN  base_url \o ApiV1 \o Slash \o LStrip(locator, "/")

\* download_report lines 220-240
FullUrl(base, locator) ==
    IF StartsWith(locator, HttpPrefix) \/ StartsWith(locator, HttpsPrefix)
    THEN locator
    ELSE LET slashed == IF StartsWith(locator, Slash) THEN locator ELSE Slash \o locator
             stripped == RStrip(base, "/")
             base_url == IF EndsWith(stripped, ApiV1) THEN DropLast(stripped, Len(ApiV1))
                         ELSE stripped
             unversioned == IF StartsWith(slashed, ApiV1) THEN DropFirst(slashed, Len(ApiV1))
                            ELSE slashed
         IN  base_url \o ApiV1 \o Slash \o LStrip(unversioned, "/")

InitUrl ==
    /\ MainIdle
    /\ WaitIdle
    /\ ApiIdle
    /\ NameIdle
    /\ config_url \in BaseUrls
    /\ url_suffix \in Locators
    /\ full_url = <<>>

\* download_report builds the URL it requests
BuildUrl ==
    /\ full_url = <<>>
    /\ full_url' = FullUrl(config_url, url_suffix)
    /\ UNCHANGED <<config_url, url_suffix>>
    /\ UNCHANGED <<mainVars, waitVars, apiVars, nameVars>>

NextUrl == BuildUrl

SpecUrl == InitUrl /\ [][NextUrl]_vars

-----------------------------------------------------------------------------
(* _generate_scan_report lines 145-150: the name of the report file *)

\* longest target description, but for the examples
MaxNameLen == 2

\* the characters descriptions are made of
NameAlphabet == {"a", "7", "-", "_", ".", " ", "/", "\\", ":"}

\* the characters of the descriptions for which str.isalnum() is true
AlnumChars ==
    {"a", "7", "M", "y", "A", "p", "v", "2", "s", "t", "g", "i", "n", "r", "e", "o"}

ExampleName == <<"M", "y", " ", "A", "p", "p", ":", " ", "v", "2", " ", "(", "s", "t", "a", "g", "i", "n", "g", ")">>

\* the default of scan_data.get('target', {}).get('description', 'report')
DefaultName == <<"r", "e", "p", "o", "r", "t">>

TargetNames ==
    UNION {[1..n -> NameAlphabet] : n \in 0..MaxNameLen} \cup {ExampleName, DefaultName}

\* values of datetime.now().strftime("%Y%m%d_%H%M%S")
Timestamps == {<<"2", "0", "2", "4", "0", "1", "3", "1", "_", "2", "3", "5", "9", "5", "9">>, <<"1", "9", "9", "9", "1", "2", "3", "1", "_", "0", "0", "0", "0", "0", "0">>}

HtmlExt == <<".", "h", "t", "m", "l">>

\* a sanitizer that lets the separator '/' through
SafeCharKeepsSlash(c) ==
    IF c \in AlnumChars \/ c \in {"-", "_", ".", "/"} THEN c ELSE "_"

\* line 147: c if c.isalnum() or c in ('-', '_', '.') else '_'
SafeChar(c) == IF c \in AlnumChars \/ c \in {"-", "_", "."} THEN c ELSE "_"

SafeName(name) == [i \in 1..Len(name) |-> SafeChar(name[i])]

\* line 149: f"{safe_name}_{timestamp}.html"
ReportFilename(name, ts) == SafeName(name) \o <<"_">> \o ts \o HtmlExt

InitName ==
    /\ MainIdle
    /\ WaitIdle
    /\ ApiIdle
    /\ UrlIdle
    /\ target_name \in TargetNames
    /\ timestamp \in Timestamps
    /\ report_filename = <<>>
    /\ descriptions = <<>>
    /\ now = 0
    /\ report_paths = <<>>

\* the report file is named
NameReport ==
    /\ report_filename = <<>>
    /\ report_filename' = ReportFilename(target_name, timestamp)
    /\ UNCHANGED <<target_name, timestamp, pathVars>>
    /\ UNCHANGED <<mainVars, waitVars, apiVars, urlVars>>

NextName == NameReport

SpecName == InitName /\ [][NextName]_vars

-----------------------------------------------------------------------------
(* process_scans: the report files of the results of one run *)

\* descriptions of the targets of one listing
BatchNames == {<<"a", " ">>, <<"a", "/">>, <<"a", "_">>, <<"7">>}

Digits == <<"0", "1", "2", "3", "4", "5", "6", "7", "8", "9">>

\* datetime.now().strftime("%Y%m%d_%H%M%S") c seconds after the run started
TimestampAt(c) ==
    <<"2", "0", "2", "4", "0", "1", "3", "1", "_", "1", "2", "0", "0", "0", Digits[c + 1]>>

InitPaths ==
    /\ MainIdle
    /\ WaitIdle
    /\ ApiIdle
    /\ UrlIdle
    /\ target_name = <<>>
    /\ timestamp = <<>>
    /\ report_filename = <<>>
    /\ descriptions \in UNION {[1..n -> BatchNames] : n \in 1..MaxScans}
    /\ now = 0
    /\ report_paths = <<>>

\* lines 145-150 and 189-204 for the next scan whose report is downloaded:
\* the file is named after the description and the second in which the line
\* runs, which is the second of the scan before or a later one
NameNextReport ==
    /\ Len(report_paths) < Len(descriptions)
    /\ \E tick \in 0..1 :
        /\ now' = now + tick
        /\ report_paths' =
            Append(report_paths,
                   ReportFilename(descriptions[Len(report_paths) + 1], TimestampAt(now')))
    /\ UNCHANGED <<target_name, timestamp, report_filename, descriptions>>
    /\ UNCHANGED <<mainVars, waitVars, apiVars, urlVars>>

NextPaths == NameNextReport

SpecPaths == InitPaths /\ [][NextPaths]_vars

-----------------------------------------------------------------------------
(* Properties of the runs *)

\* the scan_ids a successful notification of this run covers
NotifiedNow == IF email_sent = "sent" THEN IdSet(results) ELSE {}

\* C1: a scan_id enters the Processed Set, in memory or in the file, only
\* after send_email returned True in the same run for a batch that holds it;
\* while send_email has not returned True, set and file stay as loaded, and
\* over all runs the file holds only scan_ids of successfully notified batches
C1_CommitOnlyAfterNotify ==
    /\ processed_scans \subseteq loaded \cup NotifiedNow
    /\ file.ids \subseteq fileAtStart.ids \cup NotifiedNow
    /\ file.ids \subseteq notified
    /\ email_sent # "sent" => processed_scans = loaded /\ file = fileAtStart

C1_Witness ==
    /\ pc = "exited"
    /\ email_sent = "sent"
    /\ fileAtStart = ValidFile({"s2"})
    /\ file = ValidFile({"s1", "s2"})

\* a report completes when a poll within the attempts answers 'completed'
\* and every poll before it got a non-terminal answer
ReportCompletes(plan) ==
    \E k \in 1..MaxAttempts :
        /\ PlanAt(plan, k) = "completed"
        /\ \A j \in 1..(k - 1) : PlanAt(plan, j) \in NonTerminalPolls

\* a listed scan that is completed, unprocessed, and whose report is
\* generated, found and downloaded
Deliverable(e, set) ==
    /\ e.dict
    /\ e.session = "dict"
    /\ e.scan_id # NoneVal
    /\ e.target_id # NoneVal
    /\ e.scan_id \notin set
    /\ e.status = "completed"
    /\ e.gen = "ok"
    /\ ReportCompletes(e.plan)
    /\ ExtractLocator(e.payload) # NoneVal
    /\ e.download = "ok"

DeliverableIds == {scans[k].scan_id : k \in {j \in 1..Len(scans) : Deliverable(scans[j], loaded)}}

\* C2 as stated: after send_email returned True and the run has ended, the
\* file holds the loaded set and the scan_ids of the batch, which are the
\* ids of the listed scans that were completed, unprocessed and delivered
C2_PersistedIsLoadedPlusBatch ==
    (pc = "exited" /\ email_sent = "sent") =>
        /\ IdSet(results) = DeliverableIds
        /\ file = ValidFile(loaded \cup IdSet(results))

\* C3: a scan whose scan_id was in the file when the run started is not
\* reprocessed in that run: no report generation is requested for it and no
\* ScanResult is produced for it
C3_ProcessedNeverReprocessed ==
    /\ \A k \in 1..Len(handled) :
        scans[k].scan_id \in fileAtStart.ids =>
            /\ handled[k].gen = 0
            /\ handled[k].polls = 0
            /\ handled[k].dl = 0
            /\ handled[k].result = <<>>
    /\ IdSet(results) \cap fileAtStart.ids = {}

C3_Witness ==
    /\ fileAtStart = ValidFile({"s1"})
    /\ Len(handled) = 2
    /\ scans[2] = BaseScan("s1")
    /\ handled[2].state = "skipped_processed"

\* C4 as stated: every scan_id that was in the file when the run started is
\* in the file after every commit of the run and after the run has ended
C4_FileNeverShrinks == fileAtStart.ids \subseteq file.ids

\* C5: a listed scan whose status is not exactly 'completed' gets no
\* ScanResult and no report-generation, poll or download call
C5_NotCompletedUntouched ==
    \A k \in 1..Len(handled) :
        scans[k].status # "completed" =>
            /\ handled[k].result = <<>>
            /\ handled[k].gen = 0
            /\ handled[k].polls = 0
            /\ handled[k].dl = 0

C5_Witness ==
    /\ Len(handled) = 1
    /\ scans[1] = [BaseScan("s1") EXCEPT !.status = "stopped"]
    /\ processed_scans = {}
    /\ handled[1].state = "skipped_not_completed"

\* C7 as stated: whatever fails while one listed entry is handled, every
\* entry of the listing is handled and process_scans returns the batch: a run
\* whose listing succeeded ends with every entry handled and exit status 0
C7_ScanFailureNeverAborts ==
    (pc = "exited" /\ remote.listing = "ok") =>
        /\ Len(handled) = Len(scans)
        /\ exitCode = "0"

\* C8: when the listing call fails the run never reaches the scans, the
\* notifier or a commit, and ends with the run-level error and exit status 1
C8_ListingFailureAborts ==
    remote.listing = "api_error" =>
        /\ pc \in {"loaded", "exited"}
        /\ handled = <<>>
        /\ results = <<>>
        /\ notifyInput = <<>>
        /\ email_sent = "none"
        /\ processed_scans = loaded
        /\ file = fileAtStart
        /\ pc = "exited" => exitCode = "1" /\ last.outcome = "aborted"

C8_Witness ==
    /\ remote.listing = "api_error"
    /\ pc = "exited"
    /\ exitCode = "1"
    /\ fileAtStart = ValidFile({"s1"})

\* C9: when send_email returns False the set and the file are left as loaded
\* and the run ends with exit status 0; a run that follows against the same
\* remote state returns a batch with the same scan_ids in the same order
C9_IdempotentRetry ==
    /\ email_sent = "failed" =>
        /\ pc = "exited"
        /\ exitCode = "0"
        /\ processed_scans = loaded
        /\ file = fileAtStart
    /\ (last.outcome = "notify_failed" /\ pc \in {"batch", "committing"}) =>
        ScanIds(results) = last.batch

C9_Witness ==
    /\ last.outcome = "notify_failed"
    /\ pc = "batch"
    /\ ScanIds(results) = <<"s2", "s1">>
    /\ loaded = {}

RECURSIVE Batch(_)
\* the ScanResults the handled scans returned, in order
Batch(hs) == IF hs = <<>> THEN <<>> ELSE Batch(SubSeq(hs, 1, Len(hs) - 1)) \o hs[Len(hs)].result

\* C10: send_email is called at most once in a run, only after every listed
\* scan has been handled, with the whole batch; it is not called for an empty
\* batch nor after a failed listing; it has returned only if it was called
C10_OneNotificationOfWholeBatch ==
    /\ Len(notifyInput) <= 1
    /\ email_sent # "none" => notifyInput # <<>>
    /\ notifyInput # <<>> =>
        /\ remote.listing = "ok"
        /\ Len(handled) = Len(scans)
        /\ notifyInput[1] = Batch(handled)
        /\ notifyInput[1] = results
        /\ results # <<>>

C10_Witness ==
    /\ notifyInput # <<>>
    /\ Len(notifyInput[1]) = 2
    /\ pc = "committing"

-----------------------------------------------------------------------------
(* Properties of the store *)

\* C11 as stated: loading never fails the run: from a file that is absent,
\* unreadable or holds anything but a JSON array of scan_ids the run loads
\* the empty set, from a valid array exactly its ids, and it goes on to the
\* listing
C11_LoadNeverFails ==
    /\ (pc # "idle" /\ fileAtStart.kind # "valid") => loaded = {}
    /\ (pc # "idle" /\ fileAtStart.kind = "valid") => loaded = fileAtStart.ids
    /\ pc = "loaded" => processed_scans = loaded /\ exitCode = "none"

\* C12 as stated: when mark_as_processed returned without a persistence
\* failure the file holds exactly the set in memory, and the ids of a commit
\* that completed are in what the next load yields at every later point
C12_CommittedNeverLost ==
    /\ lastSave = "ok" => file = ValidFile(processed_scans)
    /\ durable \subseteq LoadProcessedScans(file)

\* C13 as stated: after an interrupt of a run that started from an intact
\* file and in which no write failed, the next load yields the set of the
\* last completed commit
C13_InterruptKeepsLastCommit ==
    (last.outcome = "interrupted" /\ ~saveFailed /\ fileAtStart.kind # "corrupt") =>
        LoadProcessedScans(file) = durable

-----------------------------------------------------------------------------
(* Properties of _generate_scan_report *)

\* the first shape, in the order download string, download list, download_url,
\* report_id, that yields a usable locator
FirstUsable(report) ==
    IF report.download = "str" THEN "download"
    ELSE IF report.download = "list_str" THEN "download[0]"
    ELSE IF report.download = "list_dict_url" THEN "download[0].url"
    ELSE IF report.download_url = "str" THEN "download_url"
    ELSE IF report.report_id = "str" THEN "report_id"
    ELSE NoneVal

\* C14 as stated: the locator of a completed report is the first usable one
\* of the four shapes, and the scan fails for 'no locator' only when none of
\* the four yields one
C14_LocatorFallsThrough ==
    \A k \in 1..Len(handled) :
        handled[k].lastPoll = "completed" =>
            /\ ExtractLocator(scans[k].payload) = FirstUsable(scans[k].payload)
            /\ handled[k].state = "no_locator" => FirstUsable(scans[k].payload) = NoneVal

\* C16: download_report returns False for an empty locator and for every
\* failure of the request or of the file, and never raises; a scan whose
\* download failed gets no ScanResult, one generation request, the polls of
\* its wait and one download attempt, and the loop goes on with the next scan
C16_DownloadFailureIsLocal ==
    /\ \A o \in DownloadOutcomes : ~DownloadReport(NoneVal, o)
    /\ \A k \in 1..Len(handled) :
        (handled[k].dl = 1 /\ scans[k].download # "ok") =>
            /\ ~handled[k].raises
            /\ handled[k].state = "download_failed"
            /\ handled[k].result = <<>>
            /\ handled[k].gen = 1
            /\ handled[k].polls = WaitForReport(scans[k].plan).polls
            /\ (Len(handled) = k /\ k < Len(scans)) => (pc = "scanning" /\ idx = k + 1)
            /\ (Len(handled) = k /\ k = Len(scans)) => pc \notin {"scanning", "loaded"}

C16_Witness ==
    /\ Len(handled) = 2
    /\ scans[1].download = "request_exception"
    /\ handled[1].state = "download_failed"
    /\ handled[2].state = "result_ready"
    /\ ScanIds(results) = <<"s2">>

\* the terminal state of a handled scan, by what was done for it: skipped (no
\* remote call), report-failed (a generation request and no download),
\* download-failed (a download and no ScanResult), result-ready
TerminalStates(h) ==
    {c \in {"skipped", "report_failed", "download_failed", "result_ready"} :
        \/ c = "skipped" /\ h.gen = 0 /\ h.dl = 0 /\ h.result = <<>>
        \/ c = "report_failed" /\ h.gen = 1 /\ h.dl = 0 /\ h.result = <<>>
        \/ c = "download_failed" /\ h.gen = 1 /\ h.dl = 1 /\ h.result = <<>>
        \/ c = "result_ready" /\ h.result # <<>>}

\* C19 as stated: polls only after a generation request that returned a
\* report_id, a download only after a poll answered 'completed', a ScanResult
\* only after a download that returned True; every handled scan is in exactly
\* one terminal state, and every scan of a listing that was fetched is handled
\* by the end of the run
C19_PipelineOrder ==
    /\ \A k \in 1..Len(handled) :
        /\ handled[k].polls > 0 => (handled[k].gen = 1 /\ scans[k].gen = "ok")
        /\ handled[k].dl > 0 => (handled[k].polls > 0 /\ handled[k].lastPoll = "completed")
        /\ handled[k].result # <<>> => (handled[k].dl = 1 /\ scans[k].download = "ok")
        /\ Cardinality(TerminalStates(handled[k])) = 1
    /\ (pc = "exited" /\ remote.listing = "ok") => Len(handled) = Len(scans)

-----------------------------------------------------------------------------
(* Properties of download_report *)

Segment == ApiV1 \o Slash

IsAbsolute(locator) == StartsWith(locator, HttpPrefix) \/ StartsWith(locator, HttpsPrefix)

\* the number of places of str where sub occurs
CountSub(str, sub) ==
    Cardinality({i \in 1..(Len(str) - Len(sub) + 1) : SubSeq(str, i, i + Len(sub) - 1) = sub})

\* the locator holds 'api/v1' nowhere but in one leading 'api/v1/' or
\* '/api/v1/'
PrefixOnly(locator) ==
    LET l == IF StartsWith(locator, Slash) THEN locator ELSE Slash \o locator
        rest == IF StartsWith(l, Segment) THEN DropFirst(l, Len(Segment)) ELSE l
    IN  CountSub(rest, DropFirst(ApiV1, 1)) = 0

\* C15 as stated: an absolute locator is used unchanged and the URL of any
\* other locator holds '/api/v1/' exactly once
C15_ExactlyOneSegment ==
    full_url # <<>> =>
        IF IsAbsolute(url_suffix) THEN full_url = url_suffix
        ELSE CountSub(full_url, Segment) = 1

\* C15, amended: an absolute locator is used unchanged; the URL of a locator
\* that holds 'api/v1' only in a leading '/api/v1/' holds '/api/v1/' exactly
\* once, after the host, for every base URL; 'reports/abc/download' and
\* '/api/v1/reports/abc/download' give the same URL
C15_OneSegmentForPrefixedLocators ==
    full_url # <<>> =>
        /\ IsAbsolute(url_suffix) => full_url = url_suffix
        /\ (~IsAbsolute(url_suffix) /\ PrefixOnly(url_suffix)) =>
                /\ CountSub(full_url, Segment) = 1
                /\ StartsWith(full_url, Host \o Segment)
        /\ url_suffix \in {ReportPath, Segment \o ReportPath} =>
                full_url = Host \o Segment \o ReportPath

C15_Witness ==
    /\ config_url = Host \o ApiV1 \o Slash
    /\ url_suffix = Segment \o ReportPath
    /\ full_url = Host \o Segment \o ReportPath

-----------------------------------------------------------------------------
(* Properties of the report file name *)

\* C18: the file name holds no path separator; its first part has the length
\* of the description, with every character that is not alphanumeric and not
\* '-', '_' or '.' replaced by '_'; then come '_', the timestamp and '.html';
\* 'My App: v2 (staging)' becomes 'My_App__v2__staging_'
C18_FileNameHasNoSeparator ==
    report_filename # <<>> =>
        LET safe == SubSeq(report_filename, 1, Len(target_name)) IN
        /\ \A i \in 1..Len(report_filename) : report_filename[i] \notin {"/", "\\"}
        /\ Len(report_filename) = Len(target_name) + 1 + Len(timestamp) + Len(HtmlExt)
        /\ \A i \in 1..Len(target_name) :
                safe[i] = IF target_name[i] \in AlnumChars \cup {"-", "_", "."}
                          THEN target_name[i] ELSE "_"
        /\ report_filename = safe \o <<"_">> \o timestamp \o HtmlExt
        /\ target_name = ExampleName => safe = <<"M", "y", "_", "A", "p", "p", "_", "_", "v", "2", "_", "_", "s", "t", "a", "g", "i", "n", "g", "_">>

C18_Witness ==
    /\ target_name = ExampleName
    /\ report_filename = <<"M", "y", "_", "A", "p", "p", "_", "_", "v", "2", "_", "_", "s", "t", "a", "g", "i", "n", "g", "_", "_", "2", "0", "2", "4", "0", "1", "3", "1", "_", "2", "3", "5", "9", "5", "9", ".", "h", "t", "m", "l">>

-----------------------------------------------------------------------------
(* Properties of generate_report *)

AllRequestsFailed ==
    /\ Len(requestLog) = max_retries + 1
    /\ \A k \in 1..Len(requestLog) : requestLog[k] \in RequestFailures

\* C17 as stated: generate_report fails with AcunetixAPIError when the target
\* identifier is empty and when every request of the retry loop failed
C17_AlwaysRemoteServiceError ==
    api_call = "generate_report" =>
        /\ (target_id = "" /\ api_result # "none") => api_result = "AcunetixAPIError"
        /\ (target_id # "" /\ AllRequestsFailed) => api_result = "AcunetixAPIError"

-----------------------------------------------------------------------------
(* Properties of _wait_for_report *)

AllNonTerminal(log) == \A k \in 1..Len(log) : log[k] \in NonTerminalPolls

\* the polls that returned something: every outcome but a raised
\* AcunetixAPIError
Responses == PollOutcomes \ {"error"}

\* C6 as stated: the wait ends at the first poll that answers 'completed'
\* (with the report) or 'failed' / 'cancelled' (without), having made exactly
\* that many polls; after every other response it goes on; when no poll
\* answers a terminal status it ends without a report after exactly
\* MaxAttempts polls, and nothing is raised
C6_WaitEndsAtFirstTerminal ==
    LET n == Len(pollLog) IN
    /\ polls = n
    /\ n <= MaxAttempts
    /\ AllNonTerminal(SubSeq(pollLog, 1, n - 1))
    /\ (n > 0 /\ pollLog[n] = "completed") => waitResult = "report"
    /\ (n > 0 /\ pollLog[n] \in {"failed", "cancelled"}) => waitResult = "none"
    /\ waitResult = "report" => (n > 0 /\ pollLog[n] = "completed")
    /\ (\A k \in 1..n : pollLog[k] \in Responses \ TerminalPolls) =>
        waitResult = (IF n < MaxAttempts THEN "waiting" ELSE "none")
    /\ waitResult \in {"waiting", "report", "none"}

\* C20 as stated: a sleep follows every poll after which the wait goes on,
\* whatever the poll returned, and no sleep follows the poll that ends it
C20_SleepBetweenPolls ==
    /\ waitResult = "waiting" => sleeps = polls
    /\ waitResult # "waiting" => sleeps = polls - 1

-----------------------------------------------------------------------------
(* Properties of a failed write of the store file *)

\* C21: a write of the store file that fails does not leave
\* mark_as_processed: during the commit loop every scan_id up to the current
\* one is in the set in memory whatever the writes did, a run whose e-mail
\* was sent ends with exit status 0 and every scan_id of the batch in the
\* set, and a scan_id of a committed batch that the next run does not load
\* from the file is in the batch of that run again
C21_SaveFailureNotPropagated ==
    /\ pc = "committing" =>
        processed_scans = loaded \cup IdSet(SubSeq(results, 1, cidx - 1))
    /\ (pc = "exited" /\ email_sent = "sent") =>
        /\ exitCode = "0"
        /\ last.outcome = "committed"
        /\ processed_scans = loaded \cup IdSet(results)
    /\ (pc = "batch" /\ last.outcome = "committed") =>
        \A k \in 1..Len(last.batch) :
            last.batch[k] \notin loaded => last.batch[k] \in IdSet(results)

\* two scans were committed and the write for the second failed before the
\* file was opened; run again, the scan the file does not hold is in the
\* batch once more
C21_Witness ==
    /\ pc = "batch"
    /\ last = [outcome |-> "committed", batch |-> <<"s1", "s2">>]
    /\ loaded = {"s1"}
    /\ ScanIds(results) = <<"s2">>

-----------------------------------------------------------------------------
(* Properties of process_scans *)

\* C26 as stated: the batch holds at most one ScanResult per scan_id and
\* generate_report is called at most once per scan_id, also for a listing
\* that holds a scan_id more than once
C26_OncePerScanId ==
    /\ \A i, j \in 1..Len(results) :
        i < j => results[i].scan_id # results[j].scan_id
    /\ \A i, j \in 1..Len(handled) :
        (i < j /\ handled[i].gen = 1 /\ handled[j].gen = 1) =>
            scans[i].scan_id # scans[j].scan_id

\* C27: the steps of process_scans leave the Processed Set as it is, in
\* memory and in the file, whatever the listing and every scan of it do
C27_ProcessScansKeepsSet ==
    [][(pc \in {"loaded", "scanning"})
        => (processed_scans' = processed_scans /\ file' = file)]_vars

\* process_scans is over: a download failed, a scan was skipped as processed,
\* and the set and the file are the ones the run started with
C27_Witness ==
    /\ pc = "batch"
    /\ Len(handled) = 2
    /\ handled[1].state = "download_failed"
    /\ handled[2].state = "skipped_processed"
    /\ loaded = {"s2"}
    /\ processed_scans = {"s2"}
    /\ file = ValidFile({"s2"})

\* C29: a listed scan without scan_id or without target_id gives no
\* ScanResult and no remote call; every ScanResult of the batch has both
\* ids, the status 'completed' and a scan_id that was not loaded
C29_ResultsAreWellFormed ==
    /\ \A k \in 1..Len(handled) :
        (scans[k].scan_id = NoneVal \/ scans[k].target_id = NoneVal) =>
            /\ handled[k].result = <<>>
            /\ handled[k].gen = 0
            /\ handled[k].polls = 0
            /\ handled[k].dl = 0
    /\ \A i \in 1..Len(results) :
        /\ results[i].scan_id # NoneVal
        /\ results[i].target_id # NoneVal
        /\ results[i].status = "completed"
        /\ results[i].scan_id \notin loaded

C29_Witness ==
    /\ pc = "batch"
    /\ Len(handled) = 2
    /\ scans[1].target_id = NoneVal
    /\ scans[1].status = "completed"
    /\ handled[1].state = "invalid"
    /\ results = <<ScanResult(BaseScan("s2"))>>

\* the number of the first poll of a report that raises AcunetixAPIError
FirstError(plan) ==
    CHOOSE k \in 1..MaxAttempts :
        /\ PlanAt(plan, k) = "error"
        /\ \A j \in 1..(k - 1) : PlanAt(plan, j) # "error"

\* C30: a report status poll that raises AcunetixAPIError is the last poll
\* of that report; no download follows, the scan gives no ScanResult, no
\* exception leaves _generate_scan_report and the loop goes on
C30_PollErrorEndsWait ==
    \A k \in 1..Len(handled) :
        handled[k].lastPoll = "error" =>
            /\ handled[k].polls = FirstError(scans[k].plan)
            /\ handled[k].dl = 0
            /\ handled[k].result = <<>>
            /\ ~handled[k].raises
            /\ handled[k].state = "report_failed"
            /\ (pc = "exited" => last.outcome # "aborted" \/ k < Len(handled))

C30_Witness ==
    /\ pc = "batch"
    /\ Len(handled) = 2
    /\ scans[1].plan = <<"running", "error">>
    /\ handled[1].lastPoll = "error"
    /\ handled[1].polls = 2
    /\ handled[2].state = "result_ready"

\* the remote calls process_scans has made for the scans handled so far
CallsBounded ==
    /\ Len(handled) <= Len(scans)
    /\ \A k \in 1..Len(handled) :
        /\ handled[k].gen <= 1
        /\ handled[k].polls <= MaxAttempts
        /\ handled[k].dl <= 1
        /\ handled[k].gen + handled[k].polls + handled[k].dl > 0 =>
            SkipReason(scans[k], loaded) = "eligible"

\* C28: a run whose remote calls all return ends; for a listing of N scans
\* process_scans handles at most N entries, with at most one generate_report,
\* MaxAttempts polls and one download for each, all of them for eligible scans
C28_RunTerminates ==
    /\ []CallsBounded
    /\ (pc = "loaded") ~> (pc = "exited")

\* a run has ended after a report that never left 'running' was polled
\* MaxAttempts times and the report of the other scan was downloaded
C28_Witness ==
    /\ pc = "exited"
    /\ Len(scans) = 2
    /\ Len(handled) = 2
    /\ handled[1].polls = MaxAttempts
    /\ handled[1].state = "report_failed"
    /\ handled[2].dl = 1

-----------------------------------------------------------------------------
(* Properties of _make_request *)

\* the failures the retry policy of the session names: a connection-level
\* failure or a response with a status of status_forcelist
RetryableFailures == {"http_503", "connection_error", "timeout"}

\* C22 as stated: a request is sent again only after a connection-level
\* failure or a response with status 408, 429, 500, 502, 503 or 504; after a
\* response with another error status no further request is made and the
\* call has failed
C22_RetriesOnlyRetryable ==
    LET n == Len(requestLog) IN
    /\ \A k \in 1..(n - 1) : requestLog[k] \in RetryableFailures
    /\ (n > 0 /\ requestLog[n] = "http_404") => api_result = "AcunetixAPIError"

\* C23 as stated: _make_request sends at most max_retries + 1 requests and none after
\* one that succeeded; it has slept once after every failed request but the
\* last possible one, 2^k units after the request with loop variable k; it
\* returns only after a request that succeeded, and raises AcunetixAPIError,
\* made from the exception caught last, when all max_retries + 1 failed
C23_BoundedRetriesWithBackoff ==
    LET n == Len(requestLog) IN
    /\ attempt = n
    /\ n <= max_retries + 1
    /\ \A k \in 1..(n - 1) : requestLog[k] \in RequestFailures
    /\ api_result = "returned" <=> (n > 0 /\ requestLog[n] = "ok")
    /\ api_result = "AcunetixAPIError" <=>
        (n = max_retries + 1 /\ requestLog[n] \in RequestFailures)
    /\ api_result = "AcunetixAPIError" => last_exception = requestLog[n]
    /\ Len(backoffs) = (IF api_result = "running" THEN n ELSE n - 1)
            \/ api_result \in {"none", "ValueError"}
    /\ \A k \in 1..Len(backoffs) : backoffs[k] = 2 ^ (k - 1)
    /\ (n > 0 /\ requestLog[n] \in RequestFailures) =>
        api_result \in {"running", "AcunetixAPIError"}

-----------------------------------------------------------------------------
(* Properties of _wait_for_scan_completion *)

\* the answers after which the wait goes on
GoesOn(log) == \A k \in 1..Len(log) : log[k] \notin {"completed", "failed", "error"}

\* C24 as stated: the wait makes at most MaxChecks status checks; it returns True at
\* the first answer 'completed', False at the first answer 'failed' and at
\* the first AcunetixAPIError, and False after exactly MaxChecks checks when
\* no such answer came; no AcunetixAPIError leaves it
C24_ScanWaitEndsAtFirstTerminal ==
    LET n == Len(checkLog) IN
    /\ checks = n
    /\ n <= MaxChecks
    /\ GoesOn(SubSeq(checkLog, 1, n - 1))
    /\ completion = "True" <=> (n > 0 /\ checkLog[n] = "completed")
    /\ (n > 0 /\ checkLog[n] \in {"failed", "error"}) => completion = "False"
    /\ GoesOn(checkLog) =>
        completion = (IF n < MaxChecks THEN "waiting" ELSE "False")
    /\ completion \in {"waiting", "True", "False"}

-----------------------------------------------------------------------------
(* Properties of the report files of one run *)

\* C25 as stated: any two ScanResults of one run have different report
\* file paths, also for scans with the same target description that are
\* processed within the same second
C25_DistinctReportPaths ==
    \A i, j \in 1..Len(report_paths) :
        i < j => report_paths[i] # report_paths[j]

====
